---- MODULE Spec2Model ----
(***************************************************************************)
(* Model of the Glidr browser's unified navigation/history state machine  *)
(* (class Glidr of main.py) together with the chat widget's navigation    *)
(* intent.  Strings are sequences of tokens: the tokens "startup://",     *)
(* "search://", "http://", "https://" and "ftp://" stand for those        *)
(* prefixes, "." and " " for themselves, "\t" for a whitespace character   *)
(* other than the space, every other token for an ordinary character.     *)
(***************************************************************************)
EXTENDS Integers, Sequences, FiniteSets, TLC

VARIABLES
    history,              \* Glidr.history: list of entry strings
    current_index,        \* Glidr.current_index (0-based, -1 when empty)
    ignore_url_add,       \* Glidr.ignore_url_add: one-shot suppression flag
    last_query_for_ai,    \* Glidr.last_query_for_ai (None or text)
    has_searched,         \* Glidr.has_searched
    ai_mode,              \* Glidr.ai_mode
    glidrai_chat_widget,  \* Glidr.glidrai_chat_widget: None or [memory, visible, waiting]
    startup_widget,       \* Glidr.startup_widget: "None", "visible" or "hidden"
    web_view,             \* [visible, loaded]: the QWebEngineView
    scroll_area,          \* visibility of the results scroll area
    loading_overlay,      \* visibility of the loading overlay
    search_input,         \* text of the top bar's search input
    results_layout,       \* widgets in the results layout
    nav_buttons,          \* [back, forward, reload]: enabled flags
    timers,               \* pending QTimer.singleShot(_load_search_results) calls
    started               \* the singleShot(0, show_startup_widget) of __init__ has run

vars == <<history, current_index, ignore_url_add, last_query_for_ai, has_searched,
          ai_mode, glidrai_chat_widget, startup_widget, web_view, scroll_area,
          loading_overlay, search_input, results_layout, nav_buttons, timers,
          started>>

----------------------------------------------------------------------------
(* Bounds of the model *)

MaxHist == 4
MaxTimers == 1
MaxMemory == 3

----------------------------------------------------------------------------
(* Strings *)

None == <<"None">>
STARTUP == <<"startup://">>
SEARCH_PREFIX == "search://"
Min(a, b) == IF a < b THEN a ELSE b

\* the characters str.strip() removes: the space, and "\t" for every other
\* whitespace character (tab, no-break space, ideographic space, ...)
Whitespace == { " ", "\t" }

\* text.strip(): leading and trailing whitespace removed
RECURSIVE LStrip(_)
LStrip(t) == IF t # <<>> /\ Head(t) \in Whitespace THEN LStrip(Tail(t)) ELSE t
RECURSIVE RStrip(_)
RStrip(t) ==
    IF t # <<>> /\ t[Len(t)] \in Whitespace
    THEN RStrip(SubSeq(t, 1, Len(t) - 1)) ELSE t
Strip(t) == RStrip(LStrip(t))

Contains(t, c) == \E i \in 1..Len(t) : t[i] = c
StartsWith(t, tok) == t # <<>> /\ t[1] = tok
HasHttpScheme(t) == StartsWith(t, "http://") \/ StartsWith(t, "https://")

\* h[:k] of Python for k >= 0
Slice(h, k) == SubSeq(h, 1, Min(k, Len(h)))
\* h[i] of Python: a negative i counts from the end
At(h, i) == IF i >= 0 THEN h[i + 1] ELSE h[Len(h) + i + 1]

is_probable_url(text) ==
    IF Contains(text, " ") THEN FALSE
    ELSE IF Contains(text, ".") /\ ~StartsWith(text, SEARCH_PREFIX)
                                /\ ~StartsWith(text, "startup://") THEN TRUE
    ELSE FALSE

\* "https://" prepended when no http scheme is present
WithScheme(text) == IF HasHttpScheme(text) THEN text ELSE <<"https://">> \o text

----------------------------------------------------------------------------
(* Inputs *)

\* what the user types into a search input
RawTexts == { <<" ">>,
              <<"c">>, <<"d", " ", "c", " ">>,
              <<"a", ".", "b">>,
              <<"https://", "a", ".", "b">> }
\* addresses the renderer reports and result links point to
Urls == { <<"https://", "a", ".", "b">>, <<"http://", "e", ".", "f">> }

----------------------------------------------------------------------------
(* The controller's state as one record, so that handlers compose as in   *)
(* the source                                                             *)

Self == [history |-> history, current_index |-> current_index,
         ignore_url_add |-> ignore_url_add, last_query_for_ai |-> last_query_for_ai,
         has_searched |-> has_searched, ai_mode |-> ai_mode,
         glidrai_chat_widget |-> glidrai_chat_widget,
         startup_widget |-> startup_widget, web_view |-> web_view,
         scroll_area |-> scroll_area, loading_overlay |-> loading_overlay,
         search_input |-> search_input, results_layout |-> results_layout,
         nav_buttons |-> nav_buttons, timers |-> timers, calls |-> <<>>]

Call(s, c) == [s EXCEPT !.calls = Append(@, c)]

----------------------------------------------------------------------------
(* History entries (stringly typed, as in the source) *)

SearchEntry(text) == <<SEARCH_PREFIX>> \o text
IsStartupEntry(e) == e = STARTUP
IsSearchEntry(e) == StartsWith(e, SEARCH_PREFIX)
IsPageEntry(e) == ~IsStartupEntry(e) /\ ~IsSearchEntry(e)
\* entry[len("search://"):]
QueryOf(e) == Tail(e)

\* mutant: the entries after the cursor are kept
Truncate_keep(s) == s

\* self.history = self.history[: self.current_index + 1]
Truncate(s) == [s EXCEPT !.history = Slice(@, s.current_index + 1)]

\* mutant: the entry is appended whatever the last entry is
NeedsAppend_always(h, entry) == TRUE

\* if not self.history or self.history[-1] != entry
NeedsAppend(h, entry) == h = <<>> \/ h[Len(h)] # entry

\* self.history.append(entry); self.current_index = len(self.history) - 1
AppendEntry(s, entry) ==
    [s EXCEPT !.history = Append(@, entry), !.current_index = Len(s.history)]

----------------------------------------------------------------------------
(* Handlers of class Glidr *)

update_nav_buttons(s) ==
    [s EXCEPT !.nav_buttons = [back |-> s.current_index > 0,
                               forward |-> s.current_index < Len(s.history) - 1,
                               reload |-> s.web_view.visible]]

clear_results(s) == [s EXCEPT !.results_layout = <<>>]

\* mutant: the Startup entry is appended without looking at the last entry
show_startup_widget_no_dedupe(s) ==
    LET s2 == AppendEntry(Truncate(s), STARTUP)
        s3 == update_nav_buttons(s2)
        s4 == [s3 EXCEPT !.search_input = <<>>,
                         !.web_view.visible = FALSE,
                         !.scroll_area = TRUE]
    IN  [clear_results(s4) EXCEPT !.startup_widget = "visible"]

\* mutant: the startup screen is shown over the address text as it was
show_startup_widget_keeps_text(s) ==
    LET s1 == Truncate(s)
        s2 == IF NeedsAppend(s1.history, STARTUP) THEN AppendEntry(s1, STARTUP) ELSE s1
        s3 == update_nav_buttons(s2)
        s4 == [s3 EXCEPT !.web_view.visible = FALSE,
                         !.scroll_area = TRUE]
    IN  [clear_results(s4) EXCEPT !.startup_widget = "visible"]

show_startup_widget(s) ==
    LET s1 == Truncate(s)
        s2 == IF NeedsAppend(s1.history, STARTUP) THEN AppendEntry(s1, STARTUP) ELSE s1
        s3 == update_nav_buttons(s2)
        s4 == [s3 EXCEPT !.search_input = <<>>,
                         !.web_view.visible = FALSE,
                         !.scroll_area = TRUE]
    IN  [clear_results(s4) EXCEPT !.startup_widget = "visible"]

NoWidget == [exists |-> FALSE, memory |-> <<>>, visible |-> FALSE, waiting |-> 0]
SystemMessage == [role |-> "system", content |-> <<"SYSTEM_PROMPT">>]
ContextMessage(q) == [role |-> "user", content |-> <<"Context:">> \o q]

\* mutant: the conversation starts with the system message alone
NewChatWidget_bare(last_query) ==
    [exists |-> TRUE, memory |-> <<SystemMessage>>, visible |-> TRUE, waiting |-> 0]

\* GlidrAIChatWidget.__init__
NewChatWidget(last_query) ==
    [exists |-> TRUE,
     memory |-> IF last_query # None /\ last_query # <<>>
                THEN <<SystemMessage, ContextMessage(last_query)>>
                ELSE <<SystemMessage>>,
     visible |-> TRUE,
     waiting |-> 0]

toggle_ai_interface(s, via_ai_box) ==
    LET s1 == [s EXCEPT !.ai_mode = ~s.ai_mode]
    IN  IF s1.ai_mode
        THEN [s1 EXCEPT !.glidrai_chat_widget =
                 NewChatWidget(IF via_ai_box THEN s.last_query_for_ai ELSE None)]
        ELSE [s1 EXCEPT !.glidrai_chat_widget = NoWidget]

\* mutant: the suppression flag is not set
_navigate_to_no_flag(s, url) ==
    LET s1 == [s EXCEPT !.glidrai_chat_widget.visible = FALSE,
                        !.startup_widget = IF @ = "None" THEN "None" ELSE "hidden",
                        !.loading_overlay = FALSE,
                        !.scroll_area = FALSE,
                        !.web_view = [visible |-> TRUE, loaded |-> TRUE],
                        !.search_input = url]
        s2 == Truncate(Call(s1, <<"load">> \o url))
        s3 == IF NeedsAppend(s2.history, url) THEN AppendEntry(s2, url) ELSE s2
    IN  update_nav_buttons(s3)

_navigate_to(s, url) ==
    LET s1 == [s EXCEPT !.glidrai_chat_widget.visible = FALSE,
                        !.startup_widget = IF @ = "None" THEN "None" ELSE "hidden",
                        !.loading_overlay = FALSE,
                        !.scroll_area = FALSE,
                        !.web_view = [visible |-> TRUE, loaded |-> TRUE],
                        !.search_input = url]
        s2 == Truncate(Call(s1, <<"load">> \o url))
        s3 == IF NeedsAppend(s2.history, url) THEN AppendEntry(s2, url) ELSE s2
    IN  update_nav_buttons([s3 EXCEPT !.ignore_url_add = TRUE])

\* mutant: the load of the results is scheduled twice
unified_search_trigger_twice(s, text) ==
    LET s1 == [s EXCEPT !.startup_widget = "None",
                        !.search_input = text,
                        !.web_view.visible = FALSE,
                        !.scroll_area = TRUE]
        s2 == [clear_results(s1) EXCEPT !.has_searched = TRUE]
        s3 == IF s2.glidrai_chat_widget.exists THEN toggle_ai_interface(s2, FALSE) ELSE s2
        entry == SearchEntry(text)
        s4 == Truncate(s3)
        s5 == IF NeedsAppend(s4.history, entry)
              THEN [AppendEntry(s4, entry) EXCEPT !.last_query_for_ai = text]
              ELSE s4
        s6 == [s5 EXCEPT !.loading_overlay = TRUE,
                         !.timers = Append(Append(@, text), text)]
    IN  IF is_probable_url(text)
        THEN _navigate_to(s3, WithScheme(text))
        ELSE update_nav_buttons(Call(s6, <<"singleShot">> \o text))

\* show_loading_overlay's QApplication.processEvents() is taken to find no
\* event waiting: the handler runs to its end before the next one starts
\* mutant: the search leaves the AI panel as it is
unified_search_trigger_keeps_panel(s, text) ==
    LET s1 == [s EXCEPT !.startup_widget = "None",
                        !.search_input = text,
                        !.web_view.visible = FALSE,
                        !.scroll_area = TRUE]
        s3 == [clear_results(s1) EXCEPT !.has_searched = TRUE]
        entry == SearchEntry(text)
        s4 == Truncate(s3)
        s5 == IF NeedsAppend(s4.history, entry)
              THEN [AppendEntry(s4, entry) EXCEPT !.last_query_for_ai = text]
              ELSE s4
        s6 == [s5 EXCEPT !.loading_overlay = TRUE,
                         !.timers = Append(@, text)]
    IN  IF is_probable_url(text)
        THEN _navigate_to(s3, WithScheme(text))
        ELSE update_nav_buttons(Call(s6, <<"singleShot">> \o text))

unified_search_trigger(s, text) ==
    LET s1 == [s EXCEPT !.startup_widget = "None",
                        !.search_input = text,
                        !.web_view.visible = FALSE,
                        !.scroll_area = TRUE]
        s2 == [clear_results(s1) EXCEPT !.has_searched = TRUE]
        s3 == IF s2.glidrai_chat_widget.exists THEN toggle_ai_interface(s2, FALSE) ELSE s2
        entry == SearchEntry(text)
        s4 == Truncate(s3)
        s5 == IF NeedsAppend(s4.history, entry)
              THEN [AppendEntry(s4, entry) EXCEPT !.last_query_for_ai = text]
              ELSE s4
        s6 == [s5 EXCEPT !.loading_overlay = TRUE,
                         !.timers = Append(@, text)]
    IN  IF is_probable_url(text)
        THEN _navigate_to(s3, WithScheme(text))
        ELSE update_nav_buttons(Call(s6, <<"singleShot">> \o text))

\* mutant: the text is searched without the test for a blank one
top_bar_search_trigger_any(s, raw) == unified_search_trigger(s, Strip(raw))

top_bar_search_trigger(s, raw) ==
    LET text == Strip(raw)
    IN  IF text = <<>> THEN s ELSE unified_search_trigger(s, text)

\* StartupSearchWidget.on_search, which calls Glidr.startup_search_trigger
on_search(s, raw) ==
    LET text == Strip(raw)
    IN  IF text = <<>> THEN s
        ELSE [unified_search_trigger(s, text) EXCEPT !.startup_widget = "None"]

\* mutant: the buttons are left as they were when an address is added
on_url_changed_stale(s, new_url) ==
    IF s.ignore_url_add THEN [s EXCEPT !.ignore_url_add = FALSE]
    ELSE IF s.current_index >= 0 /\ At(s.history, s.current_index) = new_url
         THEN [s EXCEPT !.search_input = new_url]
    ELSE LET s1 == Truncate(s)
         IN  IF NeedsAppend(s1.history, new_url)
             THEN [AppendEntry(s1, new_url) EXCEPT !.search_input = new_url]
             ELSE s1

on_url_changed(s, new_url) ==
    IF s.ignore_url_add THEN [s EXCEPT !.ignore_url_add = FALSE]
    ELSE IF s.current_index >= 0 /\ At(s.history, s.current_index) = new_url
         THEN [s EXCEPT !.search_input = new_url]
    ELSE LET s1 == Truncate(s)
             s2 == IF NeedsAppend(s1.history, new_url)
                   THEN [AppendEntry(s1, new_url) EXCEPT !.search_input = new_url]
                   ELSE s1
         IN  update_nav_buttons(s2)

\* mutant: a search entry shows the results list as it is, nothing is loaded
ShowEntry_cached(s) ==
    LET entry == At(s.history, s.current_index)
        s1 == [s EXCEPT !.ignore_url_add = TRUE]
    IN  update_nav_buttons(
          IF entry = STARTUP
          THEN show_startup_widget([s1 EXCEPT !.search_input = <<>>])
          ELSE IF StartsWith(entry, SEARCH_PREFIX)
          THEN [s1 EXCEPT !.startup_widget = "None",
                          !.web_view.visible = FALSE,
                          !.scroll_area = TRUE,
                          !.search_input = QueryOf(entry)]
          ELSE [Call(s1, <<"load">> \o entry)
                    EXCEPT !.web_view = [visible |-> TRUE, loaded |-> TRUE],
                           !.scroll_area = FALSE,
                           !.search_input = entry])

\* the part of go_back and go_forward after the cursor has moved
ShowEntry(s) ==
    LET entry == At(s.history, s.current_index)
        s1 == [s EXCEPT !.ignore_url_add = TRUE]
    IN  update_nav_buttons(
          IF entry = STARTUP
          THEN show_startup_widget([s1 EXCEPT !.search_input = <<>>])
          ELSE IF StartsWith(entry, SEARCH_PREFIX)
          THEN [unified_search_trigger(s1, QueryOf(entry))
                    EXCEPT !.search_input = QueryOf(entry)]
          ELSE [Call(s1, <<"load">> \o entry)
                    EXCEPT !.web_view = [visible |-> TRUE, loaded |-> TRUE],
                           !.scroll_area = FALSE,
                           !.search_input = entry])

\* the guard of go_back's jump to index 1
CollapseGuard(s) ==
    /\ s.current_index > 1
    /\ StartsWith(At(s.history, s.current_index), SEARCH_PREFIX)
    /\ At(s.history, 1) = STARTUP

\* mutant: an ordinary step goes two entries back where it can
go_back_two(s) ==
    IF CollapseGuard(s)
    THEN update_nav_buttons(show_startup_widget(
             [s EXCEPT !.current_index = 1, !.ignore_url_add = TRUE,
                       !.search_input = <<>>]))
    ELSE IF s.current_index <= 0 THEN s
    ELSE ShowEntry([s EXCEPT !.current_index = IF @ >= 2 THEN @ - 2 ELSE @ - 1])

\* mutant: no jump, every go_back is an ordinary step
go_back_step_only(s) ==
    IF s.current_index <= 0 THEN s
    ELSE ShowEntry([s EXCEPT !.current_index = @ - 1])

\* mutant: the suppression flag is set before the early return
go_back_flag_first(s) ==
    IF CollapseGuard(s)
    THEN update_nav_buttons(show_startup_widget(
             [s EXCEPT !.current_index = 1, !.ignore_url_add = TRUE,
                       !.search_input = <<>>]))
    ELSE IF s.current_index <= 0 THEN [s EXCEPT !.ignore_url_add = TRUE]
    ELSE ShowEntry([s EXCEPT !.current_index = @ - 1])

go_back(s) ==
    IF CollapseGuard(s)
    THEN update_nav_buttons(show_startup_widget(
             [s EXCEPT !.current_index = 1, !.ignore_url_add = TRUE,
                       !.search_input = <<>>]))
    ELSE IF s.current_index <= 0 THEN s
    ELSE ShowEntry([s EXCEPT !.current_index = @ - 1])

go_forward(s) ==
    IF s.current_index >= Len(s.history) - 1 THEN s
    ELSE ShowEntry([s EXCEPT !.current_index = @ + 1])

reload_page(s) == IF s.web_view.visible THEN Call(s, <<"reload">>) ELSE s

\* mutant: the history is emptied and no Startup entry seeded
clear_history_no_reseed(s) ==
    [s EXCEPT !.history = <<>>, !.current_index = -1]

\* mutant: the startup screen is shown without the history being emptied
clear_history_no_reset(s) == show_startup_widget(s)

clear_history(s) ==
    show_startup_widget([s EXCEPT !.history = <<>>, !.current_index = -1])

\* outcomes of fetch_ai_summary: the stripped response text or a fallback string
AiSummaries == { <<"summary">>, <<"GlidrAI response failed.">> }
\* outcomes of duckduckgo_search: a list of result urls, empty on failure
SearchResults == { <<>>, << <<"http://", "e", ".", "f">> >> }

\* _make_ai_box_widget and _make_result_widget
AiBoxWidget(text) == [kind |-> "ai", text |-> text]
ResultWidget(url) == [kind |-> "result", text |-> url]

\* mutant: a failed summary ends the load with the overlay hidden and
\* nothing shown
_load_search_results_aborts(s, query, ai_result, results) ==
    LET s1 == [s EXCEPT !.has_searched = TRUE, !.timers = Tail(@)]
        s2 == Call(Call(s1, <<"fetch_ai_summary">> \o query),
                   <<"duckduckgo_search">> \o query)
        failed == ai_result \in { <<"GlidrAI response failed.">>,
                                  <<"No GlidrAI response.">> }
        s3 == [s2 EXCEPT !.loading_overlay = FALSE,
                         !.results_layout =
                             IF failed THEN @
                             ELSE Append(@, AiBoxWidget(ai_result))
                                  \o [i \in 1..Len(results) |-> ResultWidget(results[i])]]
    IN  update_nav_buttons(s3)

_load_search_results(s, query, ai_result, results) ==
    LET s1 == [s EXCEPT !.has_searched = TRUE, !.timers = Tail(@)]
        s2 == Call(Call(s1, <<"fetch_ai_summary">> \o query),
                   <<"duckduckgo_search">> \o query)
        s3 == [s2 EXCEPT !.loading_overlay = FALSE,
                         !.results_layout =
                             Append(@, AiBoxWidget(ai_result))
                             \o [i \in 1..Len(results) |-> ResultWidget(results[i])]]
    IN  update_nav_buttons(s3)

----------------------------------------------------------------------------
(* Handlers of class GlidrAIChatWidget *)

NAVIGATE_PREFIX == "__GLIDR_NAVIGATE__("

\* what the user types into the chat input
ChatTexts == { <<" ">>, <<"g", "o">> }
\* responses of the remote chat completion
AiResponses == { <<"h", "i">>,
                 <<NAVIGATE_PREFIX, "a", ".", "b", ")">>,
                 <<NAVIGATE_PREFIX, "https://", "a", ".", "b", ")">> }

\* mutant: the message is taken and no response is scheduled
send_message_no_timer(s, raw) ==
    LET user_text == Strip(raw)
    IN  IF user_text = <<>> THEN s
        ELSE [Call(s, <<"add_bubble">> \o user_text)
                  EXCEPT !.glidrai_chat_widget.memory =
                             Append(@, [role |-> "user", content |-> user_text])]

send_message(s, raw) ==
    LET user_text == Strip(raw)
    IN  IF user_text = <<>> THEN s
        ELSE [Call(s, <<"add_bubble">> \o user_text)
                  EXCEPT !.glidrai_chat_widget.memory =
                             Append(@, [role |-> "user", content |-> user_text]),
                         !.glidrai_chat_widget.waiting = @ + 1]

\* None is returned as <<>>, which no detected url equals
detect_ai_navigation(response) ==
    IF StartsWith(response, NAVIGATE_PREFIX) /\ response[Len(response)] = ")"
    THEN WithScheme(Strip(SubSeq(response, 2, Len(response) - 1)))
    ELSE <<>>

\* mutant: a response that is not a navigation is shown but not remembered
get_ai_response_forgets(s, raw_response) ==
    LET response == Strip(raw_response)
        nav_url == detect_ai_navigation(response)
        s1 == Call(s, <<"fetch_ai_response">>)
        s2 == [s1 EXCEPT !.glidrai_chat_widget.memory =
                             Append(@, [role |-> "assistant", content |-> response]),
                         !.glidrai_chat_widget.waiting = @ - 1]
    IN  IF nav_url # <<>>
        THEN _navigate_to(
                 toggle_ai_interface([s2 EXCEPT !.search_input = nav_url], FALSE),
                 nav_url)
        ELSE Call([s1 EXCEPT !.glidrai_chat_widget.waiting = @ - 1],
                  <<"show_ai_response_animated">> \o response)

get_ai_response(s, raw_response) ==
    LET response == Strip(raw_response)
        nav_url == detect_ai_navigation(response)
        s1 == Call(s, <<"fetch_ai_response">>)
        s2 == [s1 EXCEPT !.glidrai_chat_widget.memory =
                             Append(@, [role |-> "assistant", content |-> response]),
                         !.glidrai_chat_widget.waiting = @ - 1]
    IN  IF nav_url # <<>>
        THEN _navigate_to(
                 toggle_ai_interface([s2 EXCEPT !.search_input = nav_url], FALSE),
                 nav_url)
        ELSE Call(s2, <<"show_ai_response_animated">> \o response)

----------------------------------------------------------------------------
(* The state machine *)

\* the state r becomes the controller's state
Becomes(r) ==
    /\ history' = r.history
    /\ current_index' = r.current_index
    /\ ignore_url_add' = r.ignore_url_add
    /\ last_query_for_ai' = r.last_query_for_ai
    /\ has_searched' = r.has_searched
    /\ ai_mode' = r.ai_mode
    /\ glidrai_chat_widget' = r.glidrai_chat_widget
    /\ startup_widget' = r.startup_widget
    /\ web_view' = r.web_view
    /\ scroll_area' = r.scroll_area
    /\ loading_overlay' = r.loading_overlay
    /\ search_input' = r.search_input
    /\ results_layout' = r.results_layout
    /\ nav_buttons' = r.nav_buttons
    /\ timers' = r.timers

\* a handler takes the controller from Self to r
Do(r) ==
    /\ Len(r.history) <= MaxHist
    /\ Len(r.timers) <= MaxTimers
    /\ Len(r.glidrai_chat_widget.memory) <= MaxMemory
    /\ Becomes(r)
    /\ UNCHANGED started

\* Glidr.__init__
Init ==
    /\ history = <<>>
    /\ current_index = -1
    /\ ignore_url_add = FALSE
    /\ last_query_for_ai = None
    /\ has_searched = FALSE
    /\ ai_mode = FALSE
    /\ glidrai_chat_widget = NoWidget
    /\ startup_widget = "None"
    /\ web_view = [visible |-> FALSE, loaded |-> FALSE]
    /\ scroll_area = TRUE
    /\ loading_overlay = FALSE
    /\ search_input = <<>>
    /\ results_layout = <<>>
    \* init_ui gives the buttons the disabled style and leaves them enabled
    /\ nav_buttons = [back |-> TRUE, forward |-> TRUE, reload |-> TRUE]
    /\ timers = <<>>
    /\ started = FALSE

\* QTimer.singleShot(0, self.show_startup_widget) of __init__ fires
Start ==
    /\ ~started
    /\ started' = TRUE
    /\ Becomes(show_startup_widget(Self))

\* the covering widgets, topmost first, decide what the user can reach
ChatShown == glidrai_chat_widget.exists /\ glidrai_chat_widget.visible
StartupShown == startup_widget = "visible"
ResultsReachable == scroll_area /\ ~ChatShown /\ ~StartupShown /\ ~loading_overlay

TopBarSearch(raw) ==
    started /\ Do(top_bar_search_trigger(Self, raw))

StartupSearch(raw) ==
    started /\ StartupShown /\ ~ChatShown /\ Do(on_search(Self, raw))

\* open_link_event of the i-th widget of the results layout
ClickResult(i) ==
    /\ started /\ ResultsReachable
    /\ results_layout[i].kind = "result"
    /\ Do(_navigate_to(Self, results_layout[i].text))

UrlChanged(url) ==
    started /\ web_view.loaded /\ Do(on_url_changed(Self, url))

GoBack == started /\ Do(go_back(Self))

GoForward == started /\ Do(go_forward(Self))

ReloadPage == started /\ Do(reload_page(Self))

ClearHistory == started /\ Do(clear_history(Self))

ToggleAi == started /\ Do(toggle_ai_interface(Self, FALSE))

\* the button inside the AI result box
ToggleAiViaBox ==
    /\ started /\ ResultsReachable /\ results_layout # <<>>
    /\ Do(toggle_ai_interface(Self, TRUE))

LoadSearchResults(ai_result, results) ==
    /\ started /\ timers # <<>>
    /\ Do(_load_search_results(Self, Head(timers), ai_result, results))

SendMessage(raw) ==
    started /\ ChatShown /\ Do(send_message(Self, raw))

GetAiResponse(response) ==
    /\ started /\ glidrai_chat_widget.exists /\ glidrai_chat_widget.waiting > 0
    /\ Do(get_ai_response(Self, response))

Next ==
    \/ Start
    \/ \E raw \in RawTexts : TopBarSearch(raw)
    \/ \E raw \in RawTexts : StartupSearch(raw)
    \/ \E i \in 1..Len(results_layout) : ClickResult(i)
    \/ \E url \in Urls : UrlChanged(url)
    \/ GoBack
    \/ GoForward
    \/ ReloadPage
    \/ ClearHistory
    \/ ToggleAi
    \/ ToggleAiViaBox
    \/ \E a \in AiSummaries, r \in SearchResults : LoadSearchResults(a, r)
    \/ \E raw \in ChatTexts : SendMessage(raw)
    \/ \E response \in AiResponses : GetAiResponse(response)

Spec == Init /\ [][Next]_vars

----------------------------------------------------------------------------
(* go_back and go_forward as functions of the controller's fields: every  *)
(* non-empty history without equal neighbours, with the cursor anywhere   *)
(* in it                                                                  *)

Entries == { STARTUP, SearchEntry(<<"c">>), SearchEntry(<<"d", " ", "c">>) } \cup Urls

HistoriesOfLen(n) ==
    { h \in [1..n -> Entries] : \A i \in 1..(n - 1) : h[i] # h[i + 1] }

InitAnyHistory ==
    /\ history \in UNION { HistoriesOfLen(n) : n \in 1..MaxHist }
    /\ current_index \in 0..(Len(history) - 1)
    /\ ignore_url_add \in BOOLEAN
    /\ last_query_for_ai = None
    /\ has_searched = FALSE
    /\ ai_mode = FALSE
    /\ glidrai_chat_widget = NoWidget
    /\ startup_widget = "None"
    /\ web_view = [visible |-> FALSE, loaded |-> FALSE]
    /\ scroll_area = TRUE
    /\ loading_overlay = FALSE
    /\ search_input = <<>>
    /\ results_layout = <<>>
    /\ nav_buttons = [back |-> current_index > 0,
                      forward |-> current_index < Len(history) - 1,
                      reload |-> FALSE]
    /\ timers = <<>>
    /\ started = TRUE

StepBack == Do(go_back(Self))

StepForward == Do(go_forward(Self))

NextStep == StepBack \/ StepForward

SpecStep == InitAnyHistory /\ [][NextStep]_vars

----------------------------------------------------------------------------
(* Properties.  A handler's effect is stated on its result: for the       *)
(* controller's state Self and a handler h, h(Self) is the state the      *)
(* handler leaves, and h(Self).calls the collaborator calls it made.      *)

Cur(s) == At(s.history, s.current_index)
A_URL == <<"https://", "a", ".", "b">>
\* the non-blank, non-url texts of RawTexts, stripped
Queries == { Strip(raw) : raw \in { r \in RawTexts : Strip(r) # <<>> /\ ~is_probable_url(Strip(r)) } }

\* C1: once show_startup_widget has run the history is non-empty and
\* 0 <= current_index < len(history); before, it is empty with current_index = -1
C1_CursorInRange ==
    IF started
    THEN history # <<>> /\ 0 <= current_index /\ current_index < Len(history)
    ELSE history = <<>> /\ current_index = -1

\* the cursor stands inside a history of at least three entries
C1_Witness ==
    started /\ Len(history) >= 3 /\ 0 < current_index /\ current_index < Len(history) - 1

\* C2: no two consecutive history entries are equal
C2_NoEqualNeighbours ==
    \A i \in 1..(Len(history) - 1) : history[i] # history[i + 1]

\* a full history in which an entry comes back after one other entry
C2_Witness ==
    Len(history) = MaxHist /\ \E i \in 1..(Len(history) - 2) : history[i] = history[i + 2]

\* C3: pushing an entry equal to the current one leaves history and cursor as
\* they were, for a search of the current query, a navigation to the current
\* url and a url change to the current url
C3_DuplicatePushIsNoOp ==
    started =>
        /\ \A q \in Queries :
               Cur(Self) = SearchEntry(q) =>
                   /\ top_bar_search_trigger(Self, q).history = history
                   /\ top_bar_search_trigger(Self, q).current_index = current_index
        /\ \A url \in Urls :
               Cur(Self) = url =>
                   /\ _navigate_to(Self, url).history = history
                   /\ _navigate_to(Self, url).current_index = current_index
                   /\ on_url_changed(Self, url).history = history
                   /\ on_url_changed(Self, url).current_index = current_index

\* r holds the old entries up to the cursor followed by entry, the cursor on
\* it, and nothing to go forward to
PushedOnto(r, entry) ==
    /\ r.history = Append(SubSeq(history, 1, current_index + 1), entry)
    /\ r.current_index = Len(r.history) - 1
    /\ ~r.nav_buttons.forward
    /\ go_forward(r) = r

\* C4: a push of an entry that differs from the current one, with the cursor
\* not at the end, leaves the old entries up to the cursor followed by the new
\* entry, the cursor on it, and nothing to go forward to
C4_PushTruncatesTail ==
    (started /\ current_index < Len(history) - 1) =>
        /\ \A q \in Queries :
               SearchEntry(q) # Cur(Self) =>
                   PushedOnto(top_bar_search_trigger(Self, q), SearchEntry(q))
        /\ \A url \in Urls :
               url # Cur(Self) =>
                   /\ PushedOnto(_navigate_to(Self, url), url)
                   /\ ~ignore_url_add => PushedOnto(on_url_changed(Self, url), url)

\* entries lie after the cursor and the next url change is not suppressed
C4_Witness ==
    started /\ current_index < Len(history) - 1 /\ ~ignore_url_add /\ web_view.loaded

\* C5: go_back and go_forward leave the entries as they were
C5_StepsKeepEntries ==
    started => go_back(Self).history = history /\ go_forward(Self).history = history

\* C6: where go_forward is possible, go_forward then go_back is again on an
\* entry equal to the one left, unless that go_back takes the jump to index 1
C6_ForwardThenBack ==
    (started /\ current_index < Len(history) - 1) =>
        (~CollapseGuard(go_forward(Self)) =>
             Cur(go_back(go_forward(Self))) = Cur(Self))

\* go_forward is possible and lands on a search entry
C6_Witness ==
    /\ started /\ current_index < Len(history) - 1
    /\ IsSearchEntry(At(history, current_index + 1))

C7_History == <<STARTUP, SearchEntry(<<"c">>), SearchEntry(<<"d", " ", "c">>), A_URL>>

\* C7: from [Startup, Search c, Search d, Page] with the cursor on the page,
\* go_back twice is on the Startup entry
C7_TwiceBackIsStartup ==
    (started /\ history = C7_History /\ current_index = 3) =>
        Cur(go_back(go_back(Self))) = STARTUP

\* C8: go_back from a search entry at an index above 1, with the Startup entry
\* at index 1, puts the cursor on index 1 and shows the startup screen
C8_CollapseJumpsToOne ==
    CollapseGuard(Self) =>
        /\ go_back(Self).current_index = 1
        /\ Cur(go_back(Self)) = STARTUP
        /\ go_back(Self).startup_widget = "visible"
        /\ ~go_back(Self).web_view.visible
        /\ go_back(Self).search_input = <<>>

\* the jump is due from index 3, where an ordinary step would reach index 2
C8_Witness == CollapseGuard(Self) /\ current_index = 3

\* C9: go_back at the first entry and go_forward at the last one change
\* nothing and call nothing
C9_EdgeStepsAreNoOps ==
    /\ current_index <= 0 => go_back(Self) = Self
    /\ current_index >= Len(history) - 1 => go_forward(Self) = Self

\* back on the only entry after a page had been loaded, a url change pending
C9_Witness ==
    started /\ current_index = 0 /\ Len(history) = 1 /\ web_view.loaded /\ ignore_url_add

\* C10: the url change that follows a navigation is swallowed and clears the
\* flag, so the two together add the one page entry of the navigation
C10_NotificationSwallowed ==
    started =>
        \A url \in Urls, reported \in Urls :
            LET navigated == _navigate_to(Self, url)
                notified == on_url_changed(navigated, reported)
            IN  /\ navigated.ignore_url_add
                /\ ~notified.ignore_url_add
                /\ notified.history = navigated.history
                /\ notified.current_index = navigated.current_index
                /\ Cur(notified) = url
                /\ Cur(Self) # url =>
                       notified.history =
                           Append(SubSeq(history, 1, current_index + 1), url)

\* a page was navigated to from the startup screen and its url change swallowed
C10_Witness ==
    /\ history = <<STARTUP, A_URL>> /\ current_index = 1
    /\ web_view.visible /\ ~ignore_url_add

\* the handler that left r invoked the renderer's load
HasLoad(r) == \E i \in 1..Len(r.calls) : Head(r.calls[i]) = "load"

\* C11: with no suppression pending, a go_back or go_forward that invoked no
\* load leaves none pending either, and the url change that follows it, to a
\* url other than the current entry, makes that url the current entry
C11_SwallowOnlyAfterLoad ==
    started /\ ~ignore_url_add =>
        \A r \in {go_back(Self), go_forward(Self)} :
            ~HasLoad(r) =>
                /\ ~r.ignore_url_add
                /\ \A url \in Urls :
                       url # Cur(r) => Cur(on_url_changed(r, url)) = url

\* which of the startup screen, the results list and the web page is
\* presented: the startup widget is raised over the content area, in which
\* either the web view or the scroll area of the results is shown
ViewMode(s) ==
    IF s.startup_widget = "visible" THEN "Startup"
    ELSE IF s.web_view.visible THEN "Page"
    ELSE "Results"

\* the results of query q are what is presented
InResults(s, q) == ViewMode(s) = "Results" /\ Cur(s) = SearchEntry(q)

\* C12: the completion of the search load of a query that is no longer the
\* one presented neither fills the results layout nor touches the loading
\* overlay
C12_StaleCompletionDropped ==
    started /\ timers # <<>> /\ ~InResults(Self, Head(timers)) =>
        \A a \in AiSummaries, res \in SearchResults :
            LET r == _load_search_results(Self, Head(timers), a, res)
            IN  /\ r.results_layout = results_layout
                /\ r.loading_overlay = loading_overlay

----------------------------------------------------------------------------
(* What is typed into the top bar: on the startup screen the search input *)
(* holds any text of at most MaxText tokens, and return is pressed once   *)

MaxText == 3

Tokens == { " ", "\t", ".", "a", "search://", "startup://", "https://", "ftp://" }

Texts == UNION { [1..n -> Tokens] : n \in 0..MaxText }

InitTyped ==
    /\ history = <<STARTUP>>
    /\ current_index = 0
    /\ ignore_url_add = FALSE
    /\ last_query_for_ai = None
    /\ has_searched = FALSE
    /\ ai_mode = FALSE
    /\ glidrai_chat_widget = NoWidget
    /\ startup_widget = "visible"
    /\ web_view = [visible |-> FALSE, loaded |-> FALSE]
    /\ scroll_area = TRUE
    /\ loading_overlay = FALSE
    /\ search_input \in Texts
    /\ results_layout = <<>>
    /\ nav_buttons = [back |-> FALSE, forward |-> FALSE, reload |-> FALSE]
    /\ timers = <<>>
    /\ started = TRUE

\* returnPressed of the top bar's search input, once
SubmitTyped ==
    /\ Len(history) = 1
    /\ Do(top_bar_search_trigger(Self, search_input))

SpecText == InitTyped /\ [][SubmitTyped]_vars

HasWhitespace(t) == \E i \in 1..Len(t) : t[i] \in Whitespace

\* C13: a text is taken for a url exactly when it holds no whitespace
\* character, holds a "." and starts with neither startup:// nor search://
C13_UrlIffNoWhitespaceAndDot ==
    is_probable_url(search_input) <=>
        /\ ~HasWhitespace(search_input)
        /\ Contains(search_input, ".")
        /\ ~StartsWith(search_input, "startup://")
        /\ ~StartsWith(search_input, SEARCH_PREFIX)

\* the text starts with a scheme
HasScheme(t) == t # <<>> /\ t[1] \in { "http://", "https://", "ftp://" }

HasTimerCall(r) == \E i \in 1..Len(r.calls) : Head(r.calls[i]) = "singleShot"

\* C14: a submitted text that is taken for a url becomes the current entry
\* as a page, as it stands when it starts with a scheme and after https://
\* otherwise; no search entry is added and no search load is scheduled
C14_UrlTextBecomesPage ==
    LET text == Strip(search_input)
        r == top_bar_search_trigger(Self, search_input)
    IN  text # <<>> /\ is_probable_url(text) =>
            /\ IsPageEntry(Cur(r))
            /\ Cur(r) = IF HasScheme(text) THEN text ELSE <<"https://">> \o text
            /\ \A i \in 1..Len(r.history) :
                   IsSearchEntry(r.history[i]) => i <= Len(history) /\ history[i] = r.history[i]
            /\ ~HasTimerCall(r) /\ r.timers = timers
            /\ HasLoad(r)

\* the collaborator calls of the completion of the search load that r scheduled
CompletionCalls(r, text, a, res) ==
    _load_search_results([r EXCEPT !.calls = <<>>], text, a, res).calls

\* C15: a submitted text with a space in it, other than the current entry's
\* query, is pushed as a search entry after the entries up to the cursor; the
\* results are presented for it with the loading overlay shown, one load of
\* the results is scheduled, and that load makes one AI-summary call and one
\* search call for the text
C15_SpacedTextIsSearched ==
    \A raw \in RawTexts :
        LET text == Strip(raw)
        IN  started /\ Contains(text, " ") /\ Cur(Self) # SearchEntry(text) =>
                \A r \in {top_bar_search_trigger(Self, raw), on_search(Self, raw)} :
                    /\ r.history = Append(SubSeq(history, 1, current_index + 1),
                                          SearchEntry(text))
                    /\ r.current_index = Len(r.history) - 1
                    /\ InResults(r, text)
                    /\ r.loading_overlay
                    /\ r.timers = Append(timers, text)
                    /\ r.calls = << <<"singleShot">> \o text >>
                    /\ \A a \in AiSummaries, res \in SearchResults :
                           CompletionCalls(r, text, a, res) =
                               << <<"fetch_ai_summary">> \o text,
                                  <<"duckduckgo_search">> \o text >>

\* the text "d c" has been searched from a page reached after another search
C15_Witness ==
    /\ history = <<STARTUP, SearchEntry(<<"c">>), A_URL, SearchEntry(<<"d", " ", "c">>)>>
    /\ current_index = 3
    /\ ViewMode(Self) = "Results" /\ loading_overlay
    /\ timers = << <<"d", " ", "c">> >>
    /\ ~ignore_url_add

\* the texts of nothing but whitespace, the empty text among them
BlankTexts == { t \in Texts : \A i \in 1..Len(t) : t[i] \in Whitespace }

\* C16: submitting a blank text, from the top bar or from the startup
\* widget, changes no field of the controller and calls nothing
C16_BlankTextIsNoOp ==
    started =>
        \A raw \in BlankTexts :
            /\ top_bar_search_trigger(Self, raw) = Self
            /\ on_search(Self, raw) = Self

\* a blank text is submitted while results are loading under the chat panel
C16_Witness ==
    /\ started /\ Len(history) >= 3 /\ timers # <<>> /\ ChatShown
    /\ last_query_for_ai # None /\ has_searched

\* C17: after a non-blank text that is not taken for a url has been
\* submitted, last_query_for_ai is that text
C17_LastQueryIsSubmitted ==
    started =>
        \A raw \in RawTexts :
            LET text == Strip(raw)
            IN  text # <<>> /\ ~is_probable_url(text) =>
                    top_bar_search_trigger(Self, raw).last_query_for_ai = text

\* s without the enabled flag of the reload button, which update_nav_buttons
\* reads off the web view before show_startup_widget hides it
SessionOf(s) == [s EXCEPT !.nav_buttons.reload = FALSE]

\* C18: clear_history leaves the history [startup://] with the cursor on it
\* and the startup screen presented, and clear_history again leaves that
\* state as it is
C18_ClearIsIdempotent ==
    started =>
        LET r == clear_history(Self)
        IN  /\ r.history = <<STARTUP>>
            /\ r.current_index = 0
            /\ ViewMode(r) = "Startup"
            /\ SessionOf(clear_history(r)) = SessionOf(r)

\* the state after clear_history from a page that had a page to go forward to
C18_Witness ==
    /\ history = <<STARTUP>> /\ current_index = 0
    /\ ViewMode(Self) = "Startup"
    /\ web_view.loaded /\ ignore_url_add /\ has_searched

\* r is what a step from the controller's state onto the page entry at
\* index i has to leave: that page loaded and presented, the entries as
\* they were
SteppedOntoPage(r, i) ==
    /\ r.calls = << <<"load">> \o At(history, i) >>
    /\ ViewMode(r) = "Page"
    /\ r.history = history
    /\ r.current_index = i

\* C19: a go_back or go_forward whose entry is a page loads its url, presents
\* the page and leaves the entries of the history as they were
C19_StepOntoPageKeepsEntries ==
    started =>
        /\ current_index > 0 /\ IsPageEntry(At(history, current_index - 1)) =>
               SteppedOntoPage(go_back(Self), current_index - 1)
        /\ current_index < Len(history) - 1
               /\ IsPageEntry(At(history, current_index + 1)) =>
               SteppedOntoPage(go_forward(Self), current_index + 1)

\* r is what a step from the controller's state onto the search entry at
\* index i has to leave: the results of its query presented with the loading
\* overlay shown, one load of them scheduled and nothing else called, and
\* that load calling both remote functions for the query
SteppedOntoSearch(r, i) ==
    LET q == QueryOf(At(history, i))
    IN  /\ r.current_index = i
        /\ InResults(r, q)
        /\ r.loading_overlay
        /\ r.results_layout = <<>>
        /\ r.timers = Append(timers, q)
        /\ r.calls = << <<"singleShot">> \o q >>
        /\ \A a \in AiSummaries, res \in SearchResults :
               CompletionCalls(r, q, a, res) =
                   << <<"fetch_ai_summary">> \o q, <<"duckduckgo_search">> \o q >>

\* C20: a go_back or go_forward whose entry is a search presents the results
\* of its query as loading, empties the results layout and schedules one
\* load, which makes the AI-summary call and the search call for the query
C20_StepOntoSearchReloads ==
    started =>
        /\ current_index > 0 /\ IsSearchEntry(At(history, current_index - 1)) =>
               SteppedOntoSearch(go_back(Self), current_index - 1)
        /\ current_index < Len(history) - 1
               /\ IsSearchEntry(At(history, current_index + 1)) =>
               SteppedOntoSearch(go_forward(Self), current_index + 1)

\* go_back from the search "d c" has landed on the search "c", whose results
\* had been loaded before and are being loaded again; no page was ever loaded
C20_Witness ==
    /\ history = <<STARTUP, SearchEntry(<<"c">>)>> /\ current_index = 1
    /\ last_query_for_ai = <<"d", " ", "c">>
    /\ ~web_view.loaded /\ ignore_url_add
    /\ loading_overlay /\ results_layout = <<>> /\ timers = << <<"c">> >>

----------------------------------------------------------------------------
(* The chat panel with one message sent: the panel has been opened on the *)
(* startup screen, and the remote completion answers with any response of *)
(* at most MaxResp tokens                                                 *)

MaxResp == 4

RespTokens == { NAVIGATE_PREFIX, ")", "a", ".", "https://", "ftp://", " " }

ChatResponses == UNION { [1..n -> RespTokens] : n \in 0..MaxResp }

\* the controller after __init__ and the show_startup_widget it schedules
StartedSelf ==
    show_startup_widget(
        [history |-> <<>>, current_index |-> -1, ignore_url_add |-> FALSE,
         last_query_for_ai |-> None, has_searched |-> FALSE, ai_mode |-> FALSE,
         glidrai_chat_widget |-> NoWidget, startup_widget |-> "None",
         web_view |-> [visible |-> FALSE, loaded |-> FALSE],
         scroll_area |-> TRUE, loading_overlay |-> FALSE, search_input |-> <<>>,
         results_layout |-> <<>>,
         nav_buttons |-> [back |-> FALSE, forward |-> FALSE, reload |-> FALSE],
         timers |-> <<>>, calls |-> <<>>])

\* the AI button has been pressed on the startup screen
ChatOpened == toggle_ai_interface(StartedSelf, FALSE)

InitChat ==
    /\ history = ChatOpened.history
    /\ current_index = ChatOpened.current_index
    /\ ignore_url_add = ChatOpened.ignore_url_add
    /\ last_query_for_ai = ChatOpened.last_query_for_ai
    /\ has_searched = ChatOpened.has_searched
    /\ ai_mode = ChatOpened.ai_mode
    /\ glidrai_chat_widget = ChatOpened.glidrai_chat_widget
    /\ startup_widget = ChatOpened.startup_widget
    /\ web_view = ChatOpened.web_view
    /\ scroll_area = ChatOpened.scroll_area
    /\ loading_overlay = ChatOpened.loading_overlay
    /\ search_input = ChatOpened.search_input
    /\ results_layout = ChatOpened.results_layout
    /\ nav_buttons = ChatOpened.nav_buttons
    /\ timers = ChatOpened.timers
    /\ started = TRUE

NextChat ==
    \/ \E raw \in ChatTexts : SendMessage(raw)
    \/ \E response \in ChatResponses : GetAiResponse(response)

SpecChat == InitChat /\ [][NextChat]_vars

\* the response is __GLIDR_NAVIGATE__(url) for a url without whitespace,
\* parenthesis or marker in it
IsNavigationIntent(response) ==
    /\ Len(response) >= 3
    /\ response[1] = NAVIGATE_PREFIX
    /\ response[Len(response)] = ")"
    /\ \A i \in 2..(Len(response) - 1) :
           response[i] \notin { NAVIGATE_PREFIX, ")" } \cup Whitespace

UrlOfIntent(response) == SubSeq(response, 2, Len(response) - 1)

ShowsResponse(r) ==
    \E i \in 1..Len(r.calls) : Head(r.calls[i]) = "show_ai_response_animated"

\* C21: the response __GLIDR_NAVIGATE__(url) leaves the chat panel closed, the
\* current entry the page of url, after https:// when url has no scheme, and
\* the page presented, and the response is not shown as a chat message
C21_NavigationIntentNavigates ==
    glidrai_chat_widget.exists /\ glidrai_chat_widget.waiting > 0 =>
        \A response \in ChatResponses :
            IsNavigationIntent(response) =>
                LET url == UrlOfIntent(response)
                    r == get_ai_response(Self, response)
                IN  /\ ~r.ai_mode
                    /\ r.glidrai_chat_widget = NoWidget
                    /\ Cur(r) = IF HasScheme(url) THEN url ELSE <<"https://">> \o url
                    /\ ViewMode(r) = "Page"
                    /\ ~ShowsResponse(r)

\* the response starts with the marker but encloses no url, or has a closing
\* parenthesis before its end, or does not end with one
IsMalformedIntent(response) ==
    /\ response # <<>> /\ response[1] = NAVIGATE_PREFIX
    /\ \/ response[Len(response)] # ")"
       \/ Strip(UrlOfIntent(response)) = <<>>
       \/ \E i \in 2..(Len(response) - 1) : response[i] = ")"

\* C22: a response that starts with the marker and is malformed is shown as
\* a chat message: nothing is loaded, the history and the cursor stay, and the
\* chat panel stays open
C22_MalformedIntentIsPlainText ==
    glidrai_chat_widget.exists /\ glidrai_chat_widget.waiting > 0 =>
        \A response \in ChatResponses :
            IsMalformedIntent(Strip(response)) =>
                LET r == get_ai_response(Self, response)
                IN  /\ ~HasLoad(r)
                    /\ r.history = history
                    /\ r.current_index = current_index
                    /\ r.ai_mode /\ r.glidrai_chat_widget.exists
                    /\ ShowsResponse(r)

\* the conversation of the chat widget of s
MemoryOf(s) == s.glidrai_chat_widget.memory

\* the response matches the pattern of a navigation: marker first, ")" last
MatchesIntent(response) ==
    StartsWith(response, NAVIGATE_PREFIX) /\ response[Len(response)] = ")"

\* the responses of at most two tokens, the marker alone and the marker
\* closed at once among them
ShortResponses == { response \in ChatResponses : Len(response) <= 2 }

\* r differs from the controller's state in the chat widget alone
OnlyChatChanged(r) ==
    [r EXCEPT !.glidrai_chat_widget = glidrai_chat_widget, !.calls = <<>>] = Self

\* C23: a non-blank chat text is appended to the conversation as one user
\* message and a blank one changes nothing; a response that does not match
\* the navigation pattern is appended as one assistant message, with the
\* history, the cursor, the view and the open panel as they were
C23_ChatKeepsNavigation ==
    /\ ChatShown =>
           \A raw \in ChatTexts \cup BlankTexts :
               LET r == send_message(Self, raw)
               IN  IF Strip(raw) = <<>> THEN r = Self
                   ELSE /\ MemoryOf(r) = Append(MemoryOf(Self),
                                [role |-> "user", content |-> Strip(raw)])
                        /\ OnlyChatChanged(r)
    /\ glidrai_chat_widget.exists /\ glidrai_chat_widget.waiting > 0 =>
           \A response \in ShortResponses :
               ~MatchesIntent(Strip(response)) =>
                   LET r == get_ai_response(Self, response)
                   IN  /\ MemoryOf(r) = Append(MemoryOf(Self),
                                [role |-> "assistant", content |-> Strip(response)])
                       /\ OnlyChatChanged(r)
                       /\ r.ai_mode /\ r.glidrai_chat_widget.exists
                       /\ ViewMode(r) = ViewMode(Self)

\* the answer "hi" to the message "go" stands in the conversation, the
\* history having grown beyond the startup entry
C23_Witness ==
    /\ ChatShown /\ glidrai_chat_widget.waiting = 0
    /\ Len(MemoryOf(Self)) = 3
    /\ MemoryOf(Self)[2] = [role |-> "user", content |-> <<"g", "o">>]
    /\ MemoryOf(Self)[3] = [role |-> "assistant", content |-> <<"h", "i">>]
    /\ Len(history) >= 2

\* the button of the AI result box can be pressed
CardShown == ResultsReachable /\ results_layout # <<>>

\* the same once the chat panel is closed
CardUnderChat ==
    scroll_area /\ ~StartupShown /\ ~loading_overlay /\ results_layout # <<>>

\* the conversation a freshly opened panel has to start with
SeedOf(via_ai_box) ==
    IF via_ai_box THEN <<SystemMessage, ContextMessage(last_query_for_ai)>>
    ELSE <<SystemMessage>>

\* C24: toggle_ai_interface flips ai_mode; the panel it opens holds the system
\* message alone, or the system message and the context message of
\* last_query_for_ai when opened from the result card; the panel it closes
\* leaves no conversation, and closing and opening again leaves only the seed
C24_ToggleSeedsConversation ==
    started =>
        /\ glidrai_chat_widget.exists = ai_mode
        /\ \A via \in { v \in BOOLEAN : v => CardShown } :
               LET r == toggle_ai_interface(Self, via)
               IN  /\ r.ai_mode = ~ai_mode
                   /\ r.ai_mode => MemoryOf(r) = SeedOf(via)
                   /\ ~r.ai_mode => r.glidrai_chat_widget = NoWidget
        /\ ai_mode =>
               \A via \in { v \in BOOLEAN : v => CardUnderChat } :
                   LET closed == toggle_ai_interface(Self, FALSE)
                   IN  MemoryOf(toggle_ai_interface(closed, via)) = SeedOf(via)

\* the panel has been opened from the result card of the search "c"
C24_Witness ==
    /\ ai_mode /\ ChatShown
    /\ MemoryOf(Self) = <<SystemMessage, ContextMessage(<<"c">>)>>

----------------------------------------------------------------------------
(* The two remote functions of a search: what fetch_ai_summary and         *)
(* duckduckgo_search make of the outcomes of the HTTP request and of the   *)
(* provider's iteration                                                    *)

\* outcomes of requests.get: a response with a status, or a RequestException
\* (connection error, timeout)
HttpOutcomes ==
    { [kind |-> "response", status_code |-> 200, text |-> <<"summary", " ">>],
      [kind |-> "response", status_code |-> 200, text |-> <<>>],
      [kind |-> "response", status_code |-> 500, text |-> <<"summary">>],
      [kind |-> "RequestException", status_code |-> 0, text |-> <<>>] }

FailedOutcomes == { o \in HttpOutcomes : o.kind # "response" \/ o.status_code # 200 }

fetch_ai_summary(o) ==
    IF o.kind = "RequestException" THEN <<"GlidrAI response failed.">>
    ELSE IF o.status_code = 200 THEN Strip(o.text)
    ELSE <<"No GlidrAI response.">>

\* len(results) >= 9
RESULT_CAP == 9

MaxOut == 3

ItemKinds == { "ok", "blank_title", "no_href", "raise" }

UrlTag == <<"1", "2", "3", "4", "5", "6", "7", "8", "9", "10", "11", "12">>

\* the i-th thing the provider's iteration does: it yields a result, one
\* with a title of whitespace, one without href, or it raises
Item(kind, i) ==
    [raises |-> kind = "raise",
     title |-> IF kind = "blank_title" THEN <<" ", "\t">> ELSE <<"t", UrlTag[i], " ">>,
     href |-> IF kind = "no_href" THEN <<>> ELSE <<"u", UrlTag[i]>>]

OutputOf(kinds) == [i \in 1..Len(kinds) |-> Item(kinds[i], i)]

\* every iteration of at most MaxOut steps, and the iterations of about
\* RESULT_CAP steps in which at most one step is not a good result
ShortKinds == UNION { [1..n -> ItemKinds] : n \in 0..MaxOut }
LongKinds ==
    UNION { { [i \in 1..n |-> IF i = j THEN kind ELSE "ok"] :
                  j \in 0..n, kind \in ItemKinds }
            : n \in (RESULT_CAP - 1)..(RESULT_CAP + 2) }

ProviderOutputs == { OutputOf(k) : k \in ShortKinds \cup LongKinds }

\* the collection with the cap tested as "more than"
RECURSIVE Collect_over(_, _)
Collect_over(out, results) ==
    IF out = <<>> \/ Head(out).raises THEN results
    ELSE LET title == Strip(Head(out).title)
             href == Head(out).href
             appended == IF title # <<>> /\ href # <<>>
                         THEN Append(results, <<title, href>>)
                         ELSE results
         IN  IF Len(appended) > RESULT_CAP THEN appended
             ELSE Collect_over(Tail(out), appended)

\* the loop over ddgs.text(query), results holding what was appended so far;
\* an exception ends it with results as they are
RECURSIVE Collect(_, _)
Collect(out, results) ==
    IF out = <<>> \/ Head(out).raises THEN results
    ELSE LET title == Strip(Head(out).title)
             href == Head(out).href
             appended == IF title # <<>> /\ href # <<>>
                         THEN Append(results, <<title, href>>)
                         ELSE results
         IN  IF Len(appended) >= RESULT_CAP THEN appended
             ELSE Collect(Tail(out), appended)

duckduckgo_search(out) == Collect(out, <<>>)

\* the urls of the (title, url) pairs, which is what the model's result
\* widgets keep
Hrefs(results) == [i \in 1..Len(results) |-> results[i][2]]

\* the search "c" has been submitted on the startup screen
SearchSubmitted == top_bar_search_trigger(StartedSelf, <<"c">>)

InitSearch ==
    /\ history = SearchSubmitted.history
    /\ current_index = SearchSubmitted.current_index
    /\ ignore_url_add = SearchSubmitted.ignore_url_add
    /\ last_query_for_ai = SearchSubmitted.last_query_for_ai
    /\ has_searched = SearchSubmitted.has_searched
    /\ ai_mode = SearchSubmitted.ai_mode
    /\ glidrai_chat_widget = SearchSubmitted.glidrai_chat_widget
    /\ startup_widget = SearchSubmitted.startup_widget
    /\ web_view = SearchSubmitted.web_view
    /\ scroll_area = SearchSubmitted.scroll_area
    /\ loading_overlay = SearchSubmitted.loading_overlay
    /\ search_input = SearchSubmitted.search_input
    /\ results_layout = SearchSubmitted.results_layout
    /\ nav_buttons = SearchSubmitted.nav_buttons
    /\ timers = SearchSubmitted.timers
    /\ started = TRUE

\* the timer of the search fires and both remote functions answer
RemoteAnswers ==
    \E o \in HttpOutcomes, out \in ProviderOutputs :
        LoadSearchResults(fetch_ai_summary(o), Hrefs(duckduckgo_search(out)))

SpecSearch == InitSearch /\ [][RemoteAnswers]_vars

Fallbacks == { <<"GlidrAI response failed.">>, <<"No GlidrAI response.">> }

\* a few iterations of the provider: nothing, results, a failure at once
FewOutputs ==
    { OutputOf(k) : k \in { <<>>, <<"ok">>, <<"ok", "ok">>, <<"raise">>,
                            <<"blank_title", "ok">> } }

\* C25: whatever the AI-summary request and the provider do, the completion
\* of the search presented hides the loading overlay, keeps the results view,
\* and adds the summary box and one widget per result: a failed request shows
\* a fixed fallback string beside the provider's results, and a provider that
\* fails at once shows no result beside the summary
C25_RemoteFailureDegrades ==
    started /\ timers # <<>> /\ InResults(Self, Head(timers)) =>
        \A o \in HttpOutcomes, out \in FewOutputs :
            LET summary == fetch_ai_summary(o)
                results == duckduckgo_search(out)
                r == _load_search_results(Self, Head(timers), summary, Hrefs(results))
            IN  /\ ~r.loading_overlay
                /\ ViewMode(r) = "Results"
                /\ r.results_layout =
                       Append(results_layout, AiBoxWidget(summary))
                       \o [i \in 1..Len(results) |-> ResultWidget(results[i][2])]
                /\ IF o \in FailedOutcomes THEN summary \in Fallbacks
                   ELSE summary = Strip(o.text)
                /\ out # <<>> /\ out[1].raises => results = <<>>
                /\ (\A i \in 1..Len(out) : out[i] = Item("ok", i)) =>
                       Len(results) = Len(out)

\* the results of "c" are shown with the fallback string as their summary
C25_Witness ==
    /\ history = <<STARTUP, SearchEntry(<<"c">>)>> /\ current_index = 1
    /\ ViewMode(Self) = "Results" /\ ~loading_overlay /\ timers = <<>>
    /\ results_layout = << AiBoxWidget(<<"GlidrAI response failed.">>),
                           ResultWidget(<<"http://", "e", ".", "f">>) >>

\* the provider fails at some step of the iteration
Fails(out) == \E i \in 1..Len(out) : out[i].raises

\* C26: when the provider fails, at once or in the midst of the iteration,
\* the search returns the empty sequence, so that the completion of the
\* search presented adds no result beside the summary box
C26_ProviderFailureIsEmpty ==
    started /\ timers # <<>> /\ InResults(Self, Head(timers)) =>
        \A out \in ProviderOutputs :
            Fails(out) =>
                /\ duckduckgo_search(out) = <<>>
                /\ _load_search_results(Self, Head(timers), <<"summary">>,
                       Hrefs(duckduckgo_search(out))).results_layout
                   = Append(results_layout, AiBoxWidget(<<"summary">>))

\* the pair the search function makes of the provider's item j
PairOf(out, j) == << Strip(out[j].title), out[j].href >>

\* the place in the provider's iteration of the i-th result returned
PlaceOf(out, results, i) ==
    CHOOSE j \in 1..Len(out) : results[i] = PairOf(out, j)

\* C27: the search function returns at most nine results, each with a
\* non-empty title and a non-empty url, each made of an item of the provider,
\* in the provider's order; the results view shows them in that order
C27_AtMostNineInOrder ==
    started /\ timers # <<>> /\ InResults(Self, Head(timers)) =>
        \A out \in ProviderOutputs :
            LET results == duckduckgo_search(out)
                n == Len(results)
            IN  /\ n <= 9
                /\ \A i \in 1..n :
                       /\ results[i][1] # <<>> /\ results[i][2] # <<>>
                       /\ \E j \in 1..Len(out) : results[i] = PairOf(out, j)
                /\ \A i, k \in 1..n :
                       i < k => PlaceOf(out, results, i) < PlaceOf(out, results, k)
                /\ _load_search_results(Self, Head(timers), <<"summary">>,
                       Hrefs(results)).results_layout
                   = Append(results_layout, AiBoxWidget(<<"summary">>))
                     \o [i \in 1..n |-> ResultWidget(out[PlaceOf(out, results, i)].href)]

\* nine results are shown under the summary, the provider's first and its
\* tenth among them: one item in between was refused, and the iteration
\* stopped at the ninth accepted
C27_Witness ==
    /\ ~loading_overlay /\ timers = <<>> /\ Len(results_layout) = 10
    /\ results_layout[2] = ResultWidget(<<"u", "1">>)
    /\ results_layout[10] = ResultWidget(<<"u", "10">>)

----------------------------------------------------------------------------
(* The event loop with its timers: a single-shot timer that is pending    *)
(* fires, and the handler it starts returns, since both HTTP requests     *)
(* carry a timeout (10 s and 15 s). Two completions and two responses can *)
(* be pending at once; a message is taken only while the conversation has *)
(* room for it and for every response still owed.                         *)

MaxPending == 2
MaxTalk == 5

\* a handler takes the controller from Self to r, any number of timers
\* pending up to MaxPending
Handles(r) ==
    /\ started
    /\ Len(r.history) <= MaxHist
    /\ Len(r.timers) <= MaxPending
    /\ r.glidrai_chat_widget.waiting <= MaxPending
    /\ Len(r.glidrai_chat_widget.memory) + r.glidrai_chat_widget.waiting <= MaxTalk
    /\ Becomes(r)
    /\ UNCHANGED started

\* what the user types into the search field: a query and an address
LoopTexts == { <<"c">>, <<"a", ".", "b">> }

\* QTimer.singleShot(100, lambda: self._load_search_results(text)) fires
CompletionFires ==
    /\ timers # <<>>
    /\ \E r \in SearchResults :
           Handles(_load_search_results(Self, Head(timers), <<"summary">>, r))

\* QTimer.singleShot(100, self.get_ai_response) fires
ResponseFires ==
    /\ glidrai_chat_widget.exists /\ glidrai_chat_widget.waiting > 0
    /\ \E response \in AiResponses : Handles(get_ai_response(Self, response))

\* what the user does
UserActs ==
    \/ \E raw \in LoopTexts : Handles(top_bar_search_trigger(Self, raw))
    \/ \E i \in 1..Len(results_layout) :
           /\ ResultsReachable /\ results_layout[i].kind = "result"
           /\ Handles(_navigate_to(Self, results_layout[i].text))
    \/ Handles(go_back(Self))
    \/ Handles(go_forward(Self))
    \/ Handles(toggle_ai_interface(Self, FALSE))
    \/ ResultsReachable /\ results_layout # <<>>
           /\ Handles(toggle_ai_interface(Self, TRUE))
    \/ \E raw \in ChatTexts : ChatShown /\ Handles(send_message(Self, raw))

InitLoop ==
    /\ history = StartedSelf.history
    /\ current_index = StartedSelf.current_index
    /\ ignore_url_add = StartedSelf.ignore_url_add
    /\ last_query_for_ai = StartedSelf.last_query_for_ai
    /\ has_searched = StartedSelf.has_searched
    /\ ai_mode = StartedSelf.ai_mode
    /\ glidrai_chat_widget = StartedSelf.glidrai_chat_widget
    /\ startup_widget = StartedSelf.startup_widget
    /\ web_view = StartedSelf.web_view
    /\ scroll_area = StartedSelf.scroll_area
    /\ loading_overlay = StartedSelf.loading_overlay
    /\ search_input = StartedSelf.search_input
    /\ results_layout = StartedSelf.results_layout
    /\ nav_buttons = StartedSelf.nav_buttons
    /\ timers = StartedSelf.timers
    /\ started = TRUE

NextLoop == UserActs \/ CompletionFires \/ ResponseFires

SpecLoop ==
    /\ InitLoop /\ [][NextLoop]_vars
    /\ WF_vars(CompletionFires) /\ WF_vars(ResponseFires)

\* the messages of a role in the conversation
CountOf(memory, role) ==
    Cardinality({ i \in 1..Len(memory) : memory[i].role = role })

\* the messages the user sent: the context message of the result card is
\* put in by the constructor, not sent
Sent(w) ==
    CountOf(w.memory, "user")
    - (IF Len(w.memory) >= 2 /\ Head(w.memory[2].content) = "Context:"
       THEN 1 ELSE 0)

Answered(w) == CountOf(w.memory, "assistant")

\* every message sent is answered or still owed an answer, and the overlay
\* is up only while a completion is pending
OneResolutionEach ==
    /\ loading_overlay => timers # <<>>
    /\ glidrai_chat_widget.exists =>
           Sent(glidrai_chat_widget)
           = Answered(glidrai_chat_widget) + glidrai_chat_widget.waiting

\* the next response owed arrives, unless the panel is closed first
NextResponseArrives(n) ==
    (glidrai_chat_widget.exists /\ glidrai_chat_widget.waiting > 0
        /\ Answered(glidrai_chat_widget) = n)
    ~> (~glidrai_chat_widget.exists \/ Answered(glidrai_chat_widget) > n)

\* C28: every remote call is resolved, and once: the loading overlay shown
\* by a search or by a step onto a search entry is hidden in the end, and
\* every message sent to the assistant gets one response, as a message of
\* the assistant or as a navigation that closes the panel, unless the panel
\* is closed before
C28_EveryCallResolves ==
    /\ []OneResolutionEach
    /\ loading_overlay ~> ~loading_overlay
    /\ \A n \in 0..(MaxPending - 1) : NextResponseArrives(n)

\* two messages were sent and both are answered, after a search whose
\* overlay is gone
C28_Witness ==
    /\ ~loading_overlay /\ timers = <<>> /\ has_searched
    /\ glidrai_chat_widget.exists /\ glidrai_chat_widget.waiting = 0
    /\ Sent(glidrai_chat_widget) = 2 /\ Answered(glidrai_chat_widget) = 2

\* C29: once the window has started, after every operation the back button
\* is enabled exactly when the cursor is past the first entry, and the
\* forward button exactly when the cursor is before the last entry
C29_NavButtonsFollowCursor ==
    started =>
        /\ nav_buttons.back = (current_index > 0)
        /\ nav_buttons.forward = (current_index < Len(history) - 1)

\* the cursor is inside a history of three entries, on a page, and both
\* buttons are enabled
C29_Witness ==
    /\ started /\ Len(history) = 3 /\ current_index = 1
    /\ nav_buttons.back /\ nav_buttons.forward
    /\ history[2] \in Urls

----------------------------------------------------------------------------
(* Result links: the provider's urls are shown as they come, and a click  *)
(* hands the url of the link to _navigate_to                              *)

\* urls of results: a web address, and one that begins like the startup
\* pseudo-scheme
LinkHrefs == { <<"http://", "e", ".", "f">>, <<"startup://", "x">> }

\* the results of the pending search arrive, one link among them
LinkArrives ==
    \E href \in LinkHrefs : LoadSearchResults(<<"summary">>, <<href>>)

\* responses of the assistant that ask for a pseudo-scheme address
PseudoIntents ==
    { <<NAVIGATE_PREFIX>> \o t \o <<")">> :
          t \in { <<"startup://">>, <<"startup://", "a", ".", "b">>,
                  <<SEARCH_PREFIX, "c">>, <<SEARCH_PREFIX, "a", ".", "b">>,
                  <<" ", "startup://", "x">> } }

NextLinks ==
    \/ LinkArrives
    \/ \E i \in 1..Len(results_layout) : ClickResult(i)
    \/ GoBack
    \/ GoForward
    \/ \E raw \in LoopTexts : TopBarSearch(raw)
    \/ ToggleAi
    \/ \E raw \in ChatTexts : SendMessage(raw)
    \/ \E response \in PseudoIntents : GetAiResponse(response)

SpecLinks == InitSearch /\ [][NextLinks]_vars

\* the operation handed the renderer a string that begins with a pseudo-scheme
PseudoLoad(r) ==
    \E i \in 1..Len(r.calls) :
        /\ Head(r.calls[i]) = "load" /\ Len(r.calls[i]) > 1
        /\ r.calls[i][2] \in { "startup://", SEARCH_PREFIX }

\* texts that carry a pseudo-scheme
PseudoTexts == { t \in Texts : \E i \in 1..Len(t) : t[i] \in { "startup://", SEARCH_PREFIX } }

\* a search submitted, whatever the text, loads no pseudo-scheme string
SubmitLoadsNoPseudo ==
    \A raw \in PseudoTexts : ~PseudoLoad(top_bar_search_trigger(Self, raw))

\* a navigation of the assistant loads no pseudo-scheme string
IntentLoadsNoPseudo ==
    \A response \in PseudoIntents : ~PseudoLoad(get_ai_response(Self, response))

\* a step through the history loads no pseudo-scheme string
StepLoadsNoPseudo == ~PseudoLoad(go_back(Self)) /\ ~PseudoLoad(go_forward(Self))

----------------------------------------------------------------------------
(* What is shown against the entry under the cursor *)

\* the view that decides for the kind of an entry
ViewOfEntry(e) ==
    IF IsStartupEntry(e) THEN "Startup"
    ELSE IF IsSearchEntry(e) THEN "Results"
    ELSE "Page"

\* C31: after every operation, a url change reported while the results or
\* the startup screen is shown included, the view is the one of the kind of
\* the entry under the cursor: the startup screen for the Startup entry, the
\* results for a search entry, the page for a page entry
C31_ViewMatchesEntry ==
    started => ViewMode(Self) = ViewOfEntry(Cur(Self))

\* the text of the address bar for an entry
TextOfEntry(e) ==
    IF IsStartupEntry(e) THEN <<>>
    ELSE IF IsSearchEntry(e) THEN QueryOf(e)
    ELSE e

\* C32: after every operation the text the controller put in the address bar
\* is the one of the entry under the cursor: empty for the Startup entry, the
\* query for a search entry, the url for a page entry
C32_AddressMatchesEntry ==
    started => search_input = TextOfEntry(Cur(Self))

\* the renderer reported an address while the results were shown: it is the
\* entry under the cursor and the text of the address bar
C32_Witness ==
    /\ started /\ ViewMode(Self) = "Results"
    /\ Cur(Self) = <<"http://", "e", ".", "f">>
    /\ search_input = <<"http://", "e", ".", "f">>

\* reload_page with the web view hidden calls nothing and changes nothing
ReloadIsNoOpWhenHidden == ~web_view.visible => reload_page(Self) = Self

\* the reload button is off after a clear_history
ClearDisablesReload == ~clear_history(Self).nav_buttons.reload

\* C33: after every operation the reload button is enabled exactly when the
\* page view is showing, after a clear_history issued from the page view too,
\* and reload_page while the page view is not showing calls nothing and
\* changes nothing
C33_ReloadFollowsPageView ==
    started =>
        /\ nav_buttons.reload = (ViewMode(Self) = "Page")
        /\ ReloadIsNoOpWhenHidden
        /\ ClearDisablesReload

\* go_back moves the cursor of s
BackMoves(s) == go_back(s).current_index # s.current_index

\* after the go_back of s, go_forward is possible and an immediate go_forward
\* puts the cursor on an entry equal to the one go_back left
ForwardUndoesBack(s) ==
    LET b == go_back(s)
        f == go_forward(b)
    IN  /\ b.nav_buttons.forward
        /\ b.current_index < Len(b.history) - 1
        /\ f.current_index = b.current_index + 1
        /\ Cur(f) = Cur(s)

\* the same, for a go_back that lands on a page
ForwardUndoesBackOntoPage ==
    started /\ BackMoves(Self) /\ IsPageEntry(Cur(go_back(Self))) =>
        ForwardUndoesBack(Self)

\* C34: after a go_back that moved the cursor, whatever the kind of the
\* entry it landed on, go_forward is possible and an immediate go_forward
\* returns the cursor to an entry equal to the one that was current before
C34_ForwardUndoesBack ==
    started /\ BackMoves(Self) => ForwardUndoesBack(Self)

\* C35: once the window has started, the first entry of the history is the
\* Startup entry and the second never is, so that the guard of go_back's
\* jump to index 1 holds in no reachable state
C35_StartupOnlyFirst ==
    started =>
        /\ IsStartupEntry(history[1])
        /\ Len(history) >= 2 => ~IsStartupEntry(history[2])
        /\ ~CollapseGuard(Self)

\* the cursor is past index 1 on a search entry, which is all of the guard
\* but the Startup entry at index 1
C35_Witness ==
    /\ started /\ current_index > 1
    /\ IsSearchEntry(Cur(Self))
    /\ IsPageEntry(history[2])

\* C36: the loading overlay is up only while the results are the view: in
\* every state where the startup screen or the page is shown, after a
\* clear_history or a go_back issued while a search is loading too, the
\* overlay is hidden
C36_LoadingOnlyInResults ==
    started /\ ViewMode(Self) # "Results" => ~loading_overlay

\* the AI panel is open in s
PanelOpen(s) == s.ai_mode

\* C37: the AI panel is open exactly when a conversation exists; a search
\* submitted with a text that is not blank, and a step back or forward onto
\* a search entry, leave the panel closed; a step onto a page or onto the
\* Startup entry, and clear_history, leave the panel as it was
C37_PanelFollowsConversation ==
    started =>
        /\ ai_mode = glidrai_chat_widget.exists
        /\ \A raw \in RawTexts :
               Strip(raw) # <<>> => ~PanelOpen(top_bar_search_trigger(Self, raw))
        /\ \A step \in { go_back(Self), go_forward(Self) } :
               step.current_index # current_index =>
                   IF IsSearchEntry(Cur(step)) THEN ~PanelOpen(step)
                   ELSE PanelOpen(step) = ai_mode
        /\ PanelOpen(clear_history(Self)) = ai_mode

\* a step back has landed on the Startup entry with the panel open, and the
\* panel is open still
C37_Witness ==
    /\ started /\ ai_mode /\ glidrai_chat_widget.exists
    /\ startup_widget = "visible" /\ ignore_url_add /\ ~web_view.loaded

====
